---- MODULE Spec2Model ----
(***************************************************************************)
(* Model of devenney/rail (main.go): the schedule document types, their    *)
(* String methods, Location.Delay with the time.Parse calls it makes, and  *)
(* the feed loop of main.                                                   *)
(*                                                                          *)
(* Time-of-day strings are sequences of one-character strings, so that     *)
(* len(), the layout choice and the parse are computed on the characters.  *)
(* Other attribute values are TLA+ strings, "" being the empty string.     *)
(* A rendered text is the sequence of the pieces the Sprintf calls append, *)
(* each piece a pair <<tag, value>>.                                        *)
(***************************************************************************)
EXTENDS Integers, Sequences, FiniteSets, TLC

VARIABLES
    \* ---- Location-level harness: one Location, Delay and String applied
    l,          \* the Location under computation
    d,          \* outcome of l.Delay()
    txt,        \* outcome of l.String()
    lpc,        \* "start" | "delayed" | "rendered"
    toolchain,  \* the Go release the program was built with
    \* ---- feed loop of main
    pc,         \* position of main
    queue_name, \* v.GetString("queue_name")
    subscribed, \* conn.Subscribe returned without error
    nrecv,      \* messages taken from sub.C so far
    msg,        \* the message being processed
    m,          \* the decoded Message document
    out,        \* outcome of rendering m (log.Printf("%s\n\n", m))
    rendered,   \* ids of the messages rendered so far
    acked,      \* ids passed to conn.Ack, in call order
    deferred,   \* number of pending `defer g.Close()` calls
    exit        \* why the process ended: "" while running

locVars  == <<l, d, txt, lpc, toolchain>>
feedVars == <<pc, queue_name, subscribed, nrecv, msg, m, out, rendered, acked, deferred, exit>>
vars     == <<l, d, txt, lpc, toolchain, pc, queue_name, subscribed, nrecv, msg, m, out, rendered, acked, deferred, exit>>

----------------------------------------------------------------------------
(* Bounds *)

MaxMsgs == 2        \* messages delivered on the subscription in one run
MaxLocations == 2   \* Location elements in one TS element

----------------------------------------------------------------------------
(* Characters and time-of-day strings *)

Digits == {"0", "1", "2", "3", "4", "5", "6", "7", "8", "9"}

DigitVal(c) ==
    CASE c = "0" -> 0 [] c = "1" -> 1 [] c = "2" -> 2 [] c = "3" -> 3
      [] c = "4" -> 4 [] c = "5" -> 5 [] c = "6" -> 6 [] c = "7" -> 7
      [] c = "8" -> 8 [] c = "9" -> 9

\* isDigit(s, i): position i (counted from 1 here) exists and holds a digit
isDigit(s, i) == i <= Len(s) /\ s[i] \in Digits

\* s[i:] of Go, for a 0-based i: the string without its first i characters
Drop(s, i) == SubSeq(s, i + 1, Len(s))

EmptyStr == << >>
T0905    == <<"0","9",":","0","5">>
T1000    == <<"1","0",":","0","0">>
T1007    == <<"1","0",":","0","7">>
T0958    == <<"0","9",":","5","8">>
T2358    == <<"2","3",":","5","8">>
T9c5     == <<"9",":","5">>
T2400    == <<"2","4",":","0","0">>
T100730  == <<"1","0",":","0","7",":","3","0">>
T100700  == <<"1","0",":","0","7",":","0","0">>
T90500   == <<"9",":","0","5",":","0","0">>
T1000305 == <<"1","0",":","0","0",":","3","0",".","5">>
T1000305c == <<"1","0",":","0","0",":","3","0",",","5">>
T100030Long  == <<"1","0",":","0","0",":","3","0",".","1","2","3","4","5","6","7","8","9","9">>
T100030Long0 == <<"1","0",":","0","0",":","3","0",".","0","1","2","3","4","5","6","7","8","9">>
T1000p5  == <<"1","0",":","0","0",":",".","5">>
T100000h3  == <<"1","0",":","0","0",":","0","0",".","0","0","0","0","3">>
T100000h21 == <<"1","0",":","0","0",":","0","0",".","0","0","0","2","1">>

\* the values drawn for PTA, WTA and Arrival.AT
TimeStrings ==
    { EmptyStr, T0905, T1000, T1007, T0958, T2358, T9c5, T2400,
      T100730, T100700, T90500, T1000305, T1000305c }

\* the values drawn for PTA and WTA: also fractions of ten digits, a
\* fraction with no seconds digits before it, and two fractions that put the
\* delay from 10:07 at an exact half of a millionth of a minute
SchedStrings ==
    TimeStrings \cup {T100030Long, T100030Long0, T1000p5, T100000h3, T100000h21}

----------------------------------------------------------------------------
(* time.Parse, as called by Location.Delay with the three layouts          *)
(* "15:04", "15:04:00" and "15:04:05".                                     *)

Layout1504   == <<"1","5",":","0","4">>
Layout150400 == <<"1","5",":","0","4",":","0","0">>
Layout150405 == <<"1","5",":","0","4",":","0","5">>

\* nextStdChunk: the first layout element of the layout, with the literal
\* text before it and the layout after it.  Of the element codes only those
\* the characters of the three layouts can start are needed: "15" (hour),
\* "04" (two-digit minute), "05" (two-digit second).  "00" is no element:
\* it is literal text.
RECURSIVE ScanStd(_, _)
ScanStd(layout, i) ==
    IF i > Len(layout)
    THEN [prefix |-> layout, std |-> "none", suffix |-> << >>]
    ELSE IF layout[i] = "1" /\ i + 1 <= Len(layout) /\ layout[i + 1] = "5"
    THEN [prefix |-> SubSeq(layout, 1, i - 1), std |-> "stdHour",
          suffix |-> Drop(layout, i + 1)]
    ELSE IF layout[i] = "0" /\ i + 1 <= Len(layout) /\ layout[i + 1] = "4"
    THEN [prefix |-> SubSeq(layout, 1, i - 1), std |-> "stdZeroMinute",
          suffix |-> Drop(layout, i + 1)]
    ELSE IF layout[i] = "0" /\ i + 1 <= Len(layout) /\ layout[i + 1] = "5"
    THEN [prefix |-> SubSeq(layout, 1, i - 1), std |-> "stdZeroSecond",
          suffix |-> Drop(layout, i + 1)]
    ELSE ScanStd(layout, i + 1)

nextStdChunk(layout) == ScanStd(layout, 1)

\* skip(value, prefix): value must start with the literal prefix
RECURSIVE skip(_, _)
skip(value, prefix) ==
    IF Len(prefix) = 0 THEN [err |-> FALSE, value |-> value]
    ELSE IF Len(value) = 0 \/ value[1] # prefix[1]
    THEN [err |-> TRUE, value |-> value]
    ELSE skip(Tail(value), Tail(prefix))

\* getnum(s, fixed): a one- or two-digit number; two digits when fixed
getnum(s, fixed) ==
    IF ~isDigit(s, 1) THEN [err |-> TRUE, n |-> 0, value |-> s]
    ELSE IF ~isDigit(s, 2)
    THEN IF fixed THEN [err |-> TRUE, n |-> 0, value |-> s]
         ELSE [err |-> FALSE, n |-> DigitVal(s[1]), value |-> Drop(s, 1)]
    ELSE [err |-> FALSE, n |-> DigitVal(s[1]) * 10 + DigitVal(s[2]),
          value |-> Drop(s, 2)]

RECURSIVE Pow10(_)
Pow10(k) == IF k = 0 THEN 1 ELSE 10 * Pow10(k - 1)

\* atoi of a digit string; a value of 10^9 or more is given as 10^9
RECURSIVE atoi(_, _)
atoi(s, acc) ==
    IF Len(s) = 0 THEN acc
    ELSE IF acc >= 100000000 THEN 1000000000
    ELSE atoi(Tail(s), acc * 10 + DigitVal(s[1]))

\* The repository pins no Go release, and time.Parse differs between them:
\* from Go 1.17 on a fractional second may follow a comma as well as a
\* period; after Go 1.17 a fraction of more than nine digits is cut to nine,
\* where Go 1.17 and the releases before it refuse a fraction of 10^9 or more;
\* before Go 1.20 the error of a seconds element without its two digits is
\* left pending, and is overwritten when a fractional second follows.
Toolchains == {"before go1.17", "go1.17", "go1.18 or go1.19", "go1.20 or later"}

\* commaOrPeriod(value[0]) from Go 1.17 on, value[0] == '.' before
commaOrPeriod(c) == c = "." \/ (c = "," /\ toolchain # "before go1.17")

\* the end (0-based, exclusive) of the digits of a fractional second that
\* starts at value[0], a period or comma
RECURSIVE FracEnd(_, _)
FracEnd(value, n) == IF isDigit(value, n + 1) THEN FracEnd(value, n + 1) ELSE n

\* if nbytes > 10 { value = value[:10]; nbytes = 10 }: after Go 1.17 only
FracBytes(nbytes) ==
    IF toolchain \in {"go1.18 or go1.19", "go1.20 or later"} /\ nbytes > 10
    THEN 10 ELSE nbytes

\* ns read from the digits: out of range at 10^9 or more, else scaled to
\* nanoseconds by 10 - nbytes factors of ten (none when nbytes is over 10)
ScaleNanoseconds(ns, nbytes) ==
    IF ns >= 1000000000 THEN [err |-> TRUE, ns |-> 0]
    ELSE [err |-> FALSE, ns |-> ns * (IF nbytes < 10 THEN Pow10(10 - nbytes) ELSE 1)]

\* parseNanoseconds(value, nbytes)
parseNanoseconds(value, nbytes) ==
    ScaleNanoseconds(atoi(SubSeq(value, 2, FracBytes(nbytes)), 0), FracBytes(nbytes))

ParseError == [err |-> TRUE, sec |-> 0, nsec |-> 0]

\* The loop of time.Parse over the layout's elements; the result is the
\* time of day as seconds since midnight plus nanoseconds.
\* ParseLoop takes the next element of the layout, ParseChunk skips the
\* literal text before it and ParseStd reads the element's number g.
RECURSIVE ParseLoop(_, _, _, _, _, _)

\* the fractional second read: out of range, or the nanoseconds of the time
ParseNanos(suffix, rest, hour, min, sec, pn) ==
    IF pn.err THEN ParseError
    ELSE ParseLoop(suffix, rest, hour, min, sec, pn.ns)

\* the seconds element read, with the error getnum gave (pending): a
\* fractional second in the value, with none in the layout, is read too, and
\* err is assigned anew by parseNanoseconds; with no fraction a pending error
\* is returned after the switch
ParseFrac(suffix, rest, hour, min, sec, nsec, pending) ==
    IF Len(rest) >= 2 /\ commaOrPeriod(rest[1]) /\ isDigit(rest, 2)
    THEN ParseNanos(suffix, Drop(rest, FracEnd(rest, 2)), hour, min, sec,
                    parseNanoseconds(rest, FracEnd(rest, 2)))
    ELSE IF pending THEN ParseError
    ELSE ParseLoop(suffix, rest, hour, min, sec, nsec)

\* if err != nil { break } after getnum of the seconds: from Go 1.20 on
SecondsErrorBreaks == toolchain = "go1.20 or later"

ParseStd(std, suffix, g, hour, min, sec, nsec) ==
    IF std = "stdHour"
    THEN IF g.err \/ g.n >= 24 THEN ParseError
         ELSE ParseLoop(suffix, g.value, g.n, min, sec, nsec)
    ELSE IF std = "stdZeroMinute"
    THEN IF g.err \/ g.n >= 60 THEN ParseError
         ELSE ParseLoop(suffix, g.value, hour, g.n, sec, nsec)
    ELSE \* stdZeroSecond
         IF (g.err /\ SecondsErrorBreaks) \/ g.n >= 60 THEN ParseError
         ELSE ParseFrac(suffix, g.value, hour, min, g.n, nsec, g.err)

ParseChunk(chunk, sk, hour, min, sec, nsec) ==
    IF sk.err THEN ParseError
    ELSE IF chunk.std = "none"
    THEN IF Len(sk.value) # 0 THEN ParseError
         ELSE [err |-> FALSE, sec |-> hour * 3600 + min * 60 + sec, nsec |-> nsec]
    ELSE ParseStd(chunk.std, chunk.suffix, getnum(sk.value, chunk.std # "stdHour"),
                  hour, min, sec, nsec)

SkipPrefix(chunk, value) == skip(value, chunk.prefix)

ParseStep(chunk, value, hour, min, sec, nsec) ==
    ParseChunk(chunk, SkipPrefix(chunk, value), hour, min, sec, nsec)

ParseLoop(layout, value, hour, min, sec, nsec) ==
    ParseStep(nextStdChunk(layout), value, hour, min, sec, nsec)

Parse(layout, value) == ParseLoop(layout, value, 0, 0, 0, 0)

----------------------------------------------------------------------------
(* The document types *)

EmptyEvent == [AT |-> EmptyStr, ET |-> EmptyStr, SRC |-> ""]

Events ==
    [AT : TimeStrings, ET : {EmptyStr, T1007}, SRC : {"", "TD"}]

\* the Departure and Pass events drawn: absent, or one observed event
OtherEvents == {EmptyEvent, [AT |-> T1007, ET |-> EmptyStr, SRC |-> "TD"]}

\* the values drawn for PTD, WTD and WTP
OtherTimes == {EmptyStr, T2358}

\* every combination of the three strings Delay reads, the other fields
\* empty; and every combination of the other fields, with a few of those
Locations ==
    [TPL : {"EUSTON"}, PTA : SchedStrings, PTD : {EmptyStr}, WTA : SchedStrings,
     WTD : {EmptyStr}, WTP : {EmptyStr},
     Arrival : Events, Departure : {EmptyEvent}, Pass : {EmptyEvent}]
      \cup
    [TPL : {"EUSTON"}, PTA : {EmptyStr, T1000, T0905}, PTD : OtherTimes,
     WTA : {EmptyStr, T0958},
     WTD : OtherTimes, WTP : OtherTimes,
     Arrival : [AT : {EmptyStr, T1007, T0905, T9c5}, ET : {EmptyStr, T1007},
                SRC : {"", "TD"}],
     Departure : OtherEvents, Pass : OtherEvents]

----------------------------------------------------------------------------
(* Location.Delay *)

\* the layout chosen for the actual time
ActualForm(at) == IF Len(at) = 5 THEN Layout1504 ELSE Layout150400

\* the layout chosen for the scheduled time
SchedForm(sched) == IF Len(sched) = 5 THEN Layout1504 ELSE Layout150405

\* mutant of Sched: the working time preferred to the public time
SchedWorkingFirst(loc) ==
    IF loc.WTA # EmptyStr THEN loc.WTA
    ELSE IF loc.PTA # EmptyStr THEN loc.PTA
    ELSE EmptyStr

\* the scheduled reference time: PTA, else WTA, else none (the empty string)
Sched(loc) ==
    IF loc.PTA # EmptyStr THEN loc.PTA
    ELSE IF loc.WTA # EmptyStr THEN loc.WTA
    ELSE EmptyStr

\* mutant of Sub: the operands exchanged (est.Sub(actual))
SubReversed(actual, est) ==
    IF est.nsec >= actual.nsec
    THEN [sec |-> est.sec - actual.sec, nsec |-> est.nsec - actual.nsec]
    ELSE [sec |-> est.sec - actual.sec - 1,
          nsec |-> est.nsec - actual.nsec + 1000000000]

\* actual.Sub(est): the duration as whole seconds (rounded down) and the
\* nanoseconds above them, 0 .. 999999999
Sub(actual, est) ==
    IF actual.nsec >= est.nsec
    THEN [sec |-> actual.sec - est.sec, nsec |-> actual.nsec - est.nsec]
    ELSE [sec |-> actual.sec - est.sec - 1,
          nsec |-> actual.nsec - est.nsec + 1000000000]

\* A float64 result of Delay is held as whole minutes plus the seconds and
\* nanoseconds above them, all three of one sign:
\* its value is min + (sec + nsec / 10^9) / 60.
\* ZeroDelay is the zero value of the named result d.
ZeroDelay == [min |-> 0, sec |-> 0, nsec |-> 0]

\* delta.Minutes(): d / Minute and d % Minute, both truncated towards zero
Minutes(delta) ==
    IF delta.sec >= 0
    THEN [min |-> delta.sec \div 60, sec |-> delta.sec % 60, nsec |-> delta.nsec]
    ELSE LET psec  == IF delta.nsec = 0 THEN 0 - delta.sec ELSE 0 - delta.sec - 1
             pnsec == IF delta.nsec = 0 THEN 0 ELSE 1000000000 - delta.nsec
         IN  [min |-> 0 - (psec \div 60), sec |-> 0 - (psec % 60), nsec |-> 0 - pnsec]

\* a call that returned v, and a call that ended the process in log.Fatal
Returned(v) == [fatal |-> FALSE, v |-> v]
Fatal == [fatal |-> TRUE, v |-> ZeroDelay]

\* the Arrival event is not the zero Event
ArrivalPresent(loc) == loc.Arrival # EmptyEvent

\* the actual time of the Arrival event is empty
NoActual(e) == e.AT = EmptyStr

\* est parsed: d = delta.Minutes()
DelayOf(actual, est) ==
    IF est.err THEN Fatal ELSE Returned(Minutes(Sub(actual, est)))

\* the actual time parsed: the scheduled reference is chosen and parsed
DelayAgainst(actual, sched) ==
    IF actual.err THEN Fatal
    ELSE IF sched = EmptyStr THEN Returned(ZeroDelay)
    ELSE DelayOf(actual, Parse(SchedForm(sched), sched))

Delay(loc) ==
    IF ArrivalPresent(loc)
    THEN IF NoActual(loc.Arrival) THEN Returned(ZeroDelay)
         ELSE DelayAgainst(Parse(ActualForm(loc.Arrival.AT), loc.Arrival.AT),
                           Sched(loc))
    ELSE Returned(ZeroDelay)

----------------------------------------------------------------------------
(* The String methods.  A rendering either returns a text or ends the     *)
(* process (log.Fatal inside Delay).                                       *)

Text(t) == [fatal |-> FALSE, text |-> t]
FatalText == [fatal |-> TRUE, text |-> << >>]

EventString(e) ==
    (IF e.AT # EmptyStr THEN << <<"ACTUAL", e.AT>> >> ELSE << >>)
    \o (IF e.ET # EmptyStr THEN << <<"ESTIMATED", e.ET>> >> ELSE << >>)
    \o (IF e.SRC # "" THEN << <<"Source", e.SRC>> >> ELSE << >>)

\* mutant of DelayGate: l.Delay() >= 0
DelayGateNotNegative(v) == v.min >= 0 /\ v.sec >= 0 /\ v.nsec >= 0

\* the comparison l.Delay() > 0
DelayGate(v) == v.min > 0 \/ v.sec > 0 \/ v.nsec > 0

\* the lines of a Location before the delay annotation
LocationFields(loc) ==
    << <<"TPL", loc.TPL>> >>
    \o (IF loc.PTA # EmptyStr THEN << <<"PTA", loc.PTA>> >> ELSE << >>)
    \o (IF loc.PTD # EmptyStr THEN << <<"PTD", loc.PTD>> >> ELSE << >>)
    \o (IF loc.WTA # EmptyStr THEN << <<"WTA", loc.WTA>> >> ELSE << >>)
    \o (IF loc.WTD # EmptyStr THEN << <<"WTD", loc.WTD>> >> ELSE << >>)
    \o (IF loc.WTP # EmptyStr THEN << <<"WTP", loc.WTP>> >> ELSE << >>)
    \o (IF loc.Arrival # EmptyEvent
        THEN << <<"Arr", "">> >> \o EventString(loc.Arrival) ELSE << >>)
    \o (IF loc.Departure # EmptyEvent
        THEN << <<"Dep", "">> >> \o EventString(loc.Departure) ELSE << >>)
    \o (IF loc.Pass # EmptyEvent
        THEN << <<"Pass", "">> >> \o EventString(loc.Pass) ELSE << >>)

\* The verb %f writes a float64 as a decimal with six digits after the
\* point, rounded to the nearest: a sign, the whole minutes and the
\* millionths of a minute.  One minute is 60000 units of 10^-6 minute per
\* nanosecond: sec * 10^9 + nsec = 60000 * (sec * 16666) + FracRest.
Abs(n) == IF n < 0 THEN 0 - n ELSE n

\* the nanoseconds of v not counted in Abs(v.sec) * 16666 millionths
FracRest(v) == Abs(v.sec) * 40000 + Abs(v.nsec)

\* the millionths of a minute of v, before rounding
Millionths(v) == Abs(v.sec) * 16666 + FracRest(v) \div 60000

\* At an exact half of a millionth the delay is Abs(v.min) + a / 2000000
\* minutes, a = 2 * Millionths(v) + 1, and 2000000 = 2^7 * 15625.  %f rounds
\* the float64 that Duration.Minutes() returned,
\*     float64(min) + float64(nsec) / (60 * 1e9),
\* each operation rounded to 53 bits, to the nearest, ties to the even.
\* Which side of the half that float64 lies on is read from the remainder
\* modulo 15625 of the delay in units of the float64's last binary place.
RECURSIVE Pow2(_)
Pow2(p) == IF p = 0 THEN 1 ELSE 2 * Pow2(p - 1)

RECURSIVE Pow2Mod(_)
Pow2Mod(p) == IF p = 0 THEN 1 ELSE (2 * Pow2Mod(p - 1)) % 15625

HalfOdd(v) == 2 * Millionths(v) + 1

\* the binary exponent of a / 2000000, negated: the least j with
\* 2^-j <= a / 2000000
RECURSIVE FracExp(_, _)
FracExp(a, j) == IF a * Pow2(j) >= 2000000 THEN j ELSE FracExp(a, j + 1)

\* the binary exponent of the whole minutes w >= 1
RECURSIVE WholeExp(_, _)
WholeExp(w, e) == IF Pow2(e + 1) > w THEN e ELSE WholeExp(w, e + 1)

\* a * 2^p modulo 15625: the part of a * 2^p / 15625 below the last place
BinaryRest(a, p) == ((a % 15625) * Pow2Mod(p)) % 15625

\* the quotient, rounded to 53 bits, is exactly midway between the two
\* float64 next to the sum; gap is the difference of the two exponents
QuotientAtMidpoint(r, gap) ==
    gap < 14 /\ Abs(2 * r - 15625) * Pow2(gap) < 15625

\* the sum float64(w) + quotient is rounded up: at the midpoint to the even
\* float64, else to the nearer
SumRoundsUp(r, gap) ==
    IF QuotientAtMidpoint(r, gap) THEN r % 2 = 1 ELSE r > 7812

\* the float64 lies above the half
AboveHalf(w, a) ==
    IF w = 0 THEN BinaryRest(a, 45 + FracExp(a, 1)) > 7812
    ELSE SumRoundsUp(BinaryRest(a, 45 - WholeExp(w, 0)),
                     WholeExp(w, 0) + FracExp(a, 1))

\* at the half: a float64 that is the half exactly (15625 divides a) goes to
\* the even digit, any other to the side it lies on
HalfRoundsUp(v) ==
    IF HalfOdd(v) % 15625 = 0 THEN Millionths(v) % 2 = 1
    ELSE AboveHalf(Abs(v.min), HalfOdd(v))

\* the seventh digit rounds the sixth up
RoundsUp(v) ==
    \/ FracRest(v) % 60000 > 30000
    \/ FracRest(v) % 60000 = 30000 /\ HalfRoundsUp(v)

RoundedMillionths(v) == Millionths(v) + (IF RoundsUp(v) THEN 1 ELSE 0)

FormatF(v) ==
    [neg   |-> v.min < 0 \/ v.sec < 0 \/ v.nsec < 0,
     whole |-> Abs(v.min) + RoundedMillionths(v) \div 1000000,
     frac  |-> RoundedMillionths(v) % 1000000]

\* if l.Delay() > 0 { s += fmt.Sprintf("\nDELAY: %f", l.Delay()) }; s += "\n"
DelayLine(s, dl) ==
    IF dl.fatal THEN FatalText
    ELSE IF DelayGate(dl.v)
    THEN Text(s \o << <<"DELAY", FormatF(dl.v)>>, <<"NL", "">> >>)
    ELSE Text(s \o << <<"NL", "">> >>)

LocationString(loc) == DelayLine(LocationFields(loc), Delay(loc))

----------------------------------------------------------------------------
(* Location-level specification: a Location is drawn, then Delay and       *)
(* String are applied to it.                                               *)

NotCalled == [fatal |-> FALSE, v |-> ZeroDelay]
NoText == [fatal |-> FALSE, text |-> << >>]

EmptyLocation ==
    [TPL |-> "", PTA |-> EmptyStr, PTD |-> EmptyStr, WTA |-> EmptyStr,
     WTD |-> EmptyStr, WTP |-> EmptyStr,
     Arrival |-> EmptyEvent, Departure |-> EmptyEvent, Pass |-> EmptyEvent]

EmptyMessage ==
    [XMLNS |-> "", XMLNS2 |-> "", XMLNS3 |-> "", Timestamp |-> "", Version |-> "",
     UR |-> [UO |-> "", TS |-> [RID |-> "", SSD |-> "", UID |-> "", Location |-> << >>]]]

NoMsg == [Err |-> FALSE, Body |-> [gz |-> "ok", xml |-> "ok", doc |-> EmptyMessage]]

FeedIdle ==
    /\ pc = "idle" /\ queue_name = "" /\ subscribed = FALSE /\ nrecv = 0
    /\ msg = NoMsg /\ m = EmptyMessage /\ out = NoText /\ rendered = {}
    /\ acked = << >> /\ deferred = 0 /\ exit = ""

InitDelay ==
    /\ l \in Locations
    /\ toolchain \in Toolchains
    /\ d = NotCalled
    /\ txt = NoText
    /\ lpc = "start"
    /\ FeedIdle

\* d := l.Delay()
CallDelay ==
    /\ lpc = "start"
    /\ d' = Delay(l)
    /\ lpc' = "delayed"
    /\ UNCHANGED <<l, txt, toolchain>>
    /\ UNCHANGED feedVars

\* txt := l.String(); the receiver is a copy, l is left as it is
CallString ==
    /\ lpc = "delayed"
    /\ txt' = LocationString(l)
    /\ lpc' = "rendered"
    /\ UNCHANGED <<l, d, toolchain>>
    /\ UNCHANGED feedVars

NextDelay == CallDelay \/ CallString

SpecDelay == InitDelay /\ [][NextDelay]_vars

----------------------------------------------------------------------------
(* Timestamp.String, UniqueResponse.String, Message.String *)

\* the loop over t.Location: each Location's text appended after a newline;
\* a Location whose Delay ends the process ends the rendering
RECURSIVE AppendLocations(_, _)

AppendLocation(s, ls, rest) ==
    IF ls.fatal THEN FatalText
    ELSE AppendLocations(s \o << <<"NL", "">> >> \o ls.text, rest)

AppendLocations(s, locs) ==
    IF Len(locs) = 0 THEN Text(s)
    ELSE AppendLocation(s, LocationString(Head(locs)), Tail(locs))

\* the three identifier lines: each assigns s anew
TimestampIds(t) ==
    LET s1 == IF t.RID # "" THEN << <<"RID", t.RID>> >> ELSE << >>
        s2 == IF t.SSD # "" THEN << <<"SSD", t.SSD>> >> ELSE s1
        s3 == IF t.UID # "" THEN << <<"UID", t.UID>> >> ELSE s2
    IN  s3

TimestampString(t) == AppendLocations(TimestampIds(t), t.Location)

\* a text after which t is appended, unless rendering t ended the process
Sprintf(s, t) == IF t.fatal THEN FatalText ELSE Text(s \o t.text)

UniqueResponseString(ur) == Sprintf(<< <<"UO", ur.UO>> >>, TimestampString(ur.TS))

MessageHeader(r) == << <<"TS", r.Timestamp>>, <<"Version", r.Version>> >>

MessageString(r) ==
    IF r.UR.UO # ""
    THEN Sprintf(MessageHeader(r), UniqueResponseString(r.UR))
    ELSE Text(MessageHeader(r))

----------------------------------------------------------------------------
(* The messages delivered on the subscription *)

Observed(at) == [AT |-> at, ET |-> EmptyStr, SRC |-> "TD"]

LocOnTime    == [EmptyLocation EXCEPT !.TPL = "CREWE", !.PTA = T0905,
                                      !.Arrival = Observed(T0905)]
LocLate      == [EmptyLocation EXCEPT !.TPL = "RUGBY", !.PTA = T1000, !.WTA = T0958,
                                      !.Arrival = Observed(T1007)]
LocNoArrival == [EmptyLocation EXCEPT !.TPL = "EUSTON", !.PTD = T2358]
LocBadTime   == [EmptyLocation EXCEPT !.TPL = "WATFORD", !.WTA = T1000,
                                      !.Arrival = Observed(T9c5)]

FeedLocations == {LocOnTime, LocLate, LocNoArrival, LocBadTime}

LocationLists ==
    UNION { [1..n -> FeedLocations] : n \in 0..MaxLocations }

Documents ==
    { [EmptyMessage EXCEPT !.Timestamp = "2019-01-01T10:00:00", !.Version = "12.0",
                           !.UR = [UO |-> uo,
                                   TS |-> [RID |-> rid, SSD |-> ssd, UID |-> uid,
                                           Location |-> locs]]] :
        uo \in {"", "Darwin"}, rid \in {"", "R1"}, ssd \in {"", "S1"},
        uid \in {"", "U1"}, locs \in LocationLists }

\* a message of sub.C: Err set, or a body that is a gzip stream ("ok"), no
\* gzip stream at all ("badheader") or a damaged one ("corrupt"), holding
\* XML that parses into doc ("ok") or does not ("malformed")
Messages ==
    { [Err |-> TRUE, Body |-> NoMsg.Body] }
      \cup { [Err |-> FALSE, Body |-> [gz |-> g, xml |-> "ok", doc |-> EmptyMessage]] :
               g \in {"badheader", "corrupt"} }
      \cup { [Err |-> FALSE, Body |-> [gz |-> "ok", xml |-> "malformed", doc |-> EmptyMessage]] }
      \cup { [Err |-> FALSE, Body |-> [gz |-> "ok", xml |-> "ok", doc |-> doc]] :
               doc \in Documents }

----------------------------------------------------------------------------
(* main *)

LocIdle == l = EmptyLocation /\ d = NotCalled /\ txt = NoText /\ lpc = "idle"

Init ==
    /\ pc = "dial"
    /\ queue_name \in {"", "darwin.queue"}
    /\ subscribed = FALSE /\ nrecv = 0
    /\ msg = NoMsg /\ m = EmptyMessage /\ out = NoText /\ rendered = {}
    /\ acked = << >> /\ deferred = 0 /\ exit = ""
    /\ LocIdle
    /\ toolchain \in Toolchains

\* log.Fatal: os.Exit(1), no deferred call runs
LogFatal(why) == pc' = "exited" /\ exit' = why

\* conn, err := stomp.Dial(...)
Dial ==
    /\ pc = "dial"
    /\ \E ok \in BOOLEAN :
         IF ok THEN pc' = "checkq" /\ exit' = exit ELSE LogFatal("Fatal(Dial)")
    /\ UNCHANGED <<queue_name, subscribed, nrecv, msg, m, out, rendered, acked, deferred>>
    /\ UNCHANGED locVars

\* mutant of CheckQueueName: the queue name is not looked at
CheckQueueNameSkipped ==
    /\ pc = "checkq"
    /\ pc' = "subscribe"
    /\ UNCHANGED <<queue_name, subscribed, nrecv, msg, m, out, rendered, acked, deferred, exit>>
    /\ UNCHANGED locVars

\* if v.GetString("queue_name") == "" { log.Fatal(...) }
CheckQueueName ==
    /\ pc = "checkq"
    /\ IF queue_name = "" THEN LogFatal("Fatal(RAIL_QUEUE_NAME is not set)")
       ELSE pc' = "subscribe" /\ exit' = exit
    /\ UNCHANGED <<queue_name, subscribed, nrecv, msg, m, out, rendered, acked, deferred>>
    /\ UNCHANGED locVars

\* sub, err := conn.Subscribe(queue_name, stomp.AckClient)
Subscribe ==
    /\ pc = "subscribe"
    /\ \E ok \in BOOLEAN :
         IF ok THEN pc' = "loop" /\ subscribed' = TRUE /\ exit' = exit
         ELSE LogFatal("Fatal(Subscribe)") /\ subscribed' = subscribed
    /\ UNCHANGED <<queue_name, nrecv, msg, m, out, rendered, acked, deferred>>
    /\ UNCHANGED locVars

\* the loop condition time.Since(start) < 600*time.Second; the run is cut
\* after MaxMsgs messages
LoopCheck ==
    /\ pc = "loop"
    /\ \E expired \in BOOLEAN :
         IF expired \/ nrecv >= MaxMsgs THEN pc' = "unsubscribe" ELSE pc' = "wait"
    /\ UNCHANGED <<queue_name, subscribed, nrecv, msg, m, out, rendered, acked, deferred, exit>>
    /\ UNCHANGED locVars

\* msg := <-sub.C; if msg.Err != nil { log.Fatal(msg.Err) }
Receive ==
    /\ pc = "wait"
    /\ \E mm \in Messages :
         /\ msg' = mm
         /\ nrecv' = nrecv + 1
         /\ IF mm.Err THEN LogFatal("Fatal(msg.Err)")
            ELSE pc' = "decompress" /\ exit' = exit
    /\ UNCHANGED <<queue_name, subscribed, m, out, rendered, acked, deferred>>
    /\ UNCHANGED locVars

\* g, _ := gzip.NewReader(body); defer g.Close(); _, err = b.ReadFrom(g)
\* With no gzip header g is nil and ReadFrom dereferences it: a panic, which
\* unwinds main and runs every deferred g.Close() (the nil one panics again)
\* before the process ends.  log.Fatal leaves the deferred calls pending.
Decompress ==
    /\ pc = "decompress"
    /\ IF msg.Body.gz = "badheader"
       THEN pc' = "exited" /\ exit' = "panic(nil gzip.Reader)" /\ deferred' = 0
       ELSE IF msg.Body.gz = "corrupt"
       THEN LogFatal("Fatal(ReadFrom)") /\ deferred' = deferred + 1
       ELSE pc' = "unmarshal" /\ exit' = exit /\ deferred' = deferred + 1
    /\ UNCHANGED <<queue_name, subscribed, nrecv, msg, m, out, rendered, acked>>
    /\ UNCHANGED locVars

\* var m Message; err = xml.Unmarshal(b.Bytes(), &m)
Unmarshal ==
    /\ pc = "unmarshal"
    /\ IF msg.Body.xml = "malformed"
       THEN LogFatal("Fatal(Unmarshal)") /\ m' = EmptyMessage
       ELSE pc' = "render" /\ exit' = exit /\ m' = msg.Body.doc
    /\ UNCHANGED <<queue_name, subscribed, nrecv, msg, out, rendered, acked, deferred>>
    /\ UNCHANGED locVars

\* log.Printf("%s\n\n", m): m.String(), in which Delay may call log.Fatal
Render ==
    /\ pc = "render"
    /\ out' = MessageString(m)
    /\ IF out'.fatal
       THEN LogFatal("Fatal(time.Parse)") /\ rendered' = rendered
       ELSE pc' = "ack" /\ exit' = exit /\ rendered' = rendered \cup {nrecv}
    /\ UNCHANGED <<queue_name, subscribed, nrecv, msg, m, acked, deferred>>
    /\ UNCHANGED locVars

\* _ = conn.Ack(msg); the iteration ends and its msg, b and m go out of scope
Ack ==
    /\ pc = "ack"
    /\ acked' = Append(acked, nrecv)
    /\ pc' = "loop"
    /\ msg' = NoMsg /\ m' = EmptyMessage /\ out' = NoText
    /\ UNCHANGED <<queue_name, subscribed, nrecv, rendered, deferred, exit>>
    /\ UNCHANGED locVars

\* err = sub.Unsubscribe()
Unsubscribe ==
    /\ pc = "unsubscribe"
    /\ \E ok \in BOOLEAN :
         IF ok THEN pc' = "disconnect" /\ subscribed' = FALSE /\ exit' = exit
         ELSE LogFatal("Fatal(Unsubscribe)") /\ subscribed' = subscribed
    /\ UNCHANGED <<queue_name, nrecv, msg, m, out, rendered, acked, deferred>>
    /\ UNCHANGED locVars

\* conn.Disconnect(); main returns and the deferred g.Close() calls run
Disconnect ==
    /\ pc = "disconnect"
    /\ pc' = "exited" /\ exit' = "return"
    /\ deferred' = 0
    /\ UNCHANGED <<queue_name, subscribed, nrecv, msg, m, out, rendered, acked>>
    /\ UNCHANGED locVars

Next ==
    \/ Dial \/ CheckQueueName \/ Subscribe \/ LoopCheck \/ Receive
    \/ Decompress \/ Unmarshal \/ Render \/ Ack \/ Unsubscribe \/ Disconnect

Spec == Init /\ [][Next]_vars

----------------------------------------------------------------------------
(* Properties of Location.Delay and Location.String, under SpecDelay *)

\* the text holds a delay annotation
HasDelayLine(t) == \E i \in 1..Len(t) : t[i][1] = "DELAY"

\* the annotated values of the text, in order
DelayLines(t) == SelectSeq(t, LAMBDA p : p[1] = "DELAY")

\* a Location scheduled at 09:05 and observed at 09:05: a computed delay of 0
OnTimeLocation ==
    [EmptyLocation EXCEPT !.PTA = T0905,
                          !.Arrival = [AT |-> T0905, ET |-> EmptyStr, SRC |-> ""]]

\* the Arrival event is absent, or its actual time is empty
NoArrivalTime == l.Arrival = EmptyEvent \/ l.Arrival.AT = EmptyStr

\* C1, as claimed: with the Arrival event absent, or its actual time empty,
\* the outcome of Delay is distinguishable from a computed delay of 0.0
C1_UndefinedDistinctFromZero ==
    (lpc # "start" /\ NoArrivalTime) => d # Delay(OnTimeLocation)

\* the delay computed from an actual time and one scheduled time
DelayBetween(at, ref) ==
    IF Parse(ActualForm(at), at).err \/ Parse(SchedForm(ref), ref).err
    THEN Fatal
    ELSE Returned(Minutes(Sub(Parse(ActualForm(at), at), Parse(SchedForm(ref), ref))))

\* C2: with an actual arrival time present, the delay is computed against
\* PTA when PTA is non-empty, against WTA when PTA is empty and WTA is not,
\* and it does not depend on PTD, WTD or WTP
C2_ReferenceIsPTAThenWTA ==
    (lpc # "start" /\ l.Arrival.AT # EmptyStr) =>
        /\ l.PTA # EmptyStr => d = DelayBetween(l.Arrival.AT, l.PTA)
        /\ (l.PTA = EmptyStr /\ l.WTA # EmptyStr) => d = DelayBetween(l.Arrival.AT, l.WTA)
        /\ d = Delay([l EXCEPT !.PTD = EmptyStr, !.WTD = EmptyStr, !.WTP = EmptyStr])
        /\ d = Delay([l EXCEPT !.PTD = T1007, !.WTD = T0905, !.WTP = T9c5])

C2_Witness ==
    /\ lpc = "delayed"
    /\ l.Arrival.AT = T1007 /\ l.PTA = T1000 /\ l.WTA = T0958 /\ l.PTD = T2358
    /\ d = Returned([min |-> 7, sec |-> 0, nsec |-> 0])

\* a well-formed HH:MM string, and the minute of the day it names
WellFormedHHMM(t) ==
    /\ Len(t) = 5
    /\ t[1] \in Digits /\ t[2] \in Digits /\ t[3] = ":" /\ t[4] \in Digits /\ t[5] \in Digits
    /\ DigitVal(t[1]) * 10 + DigitVal(t[2]) <= 23
    /\ DigitVal(t[4]) * 10 + DigitVal(t[5]) <= 59

MinuteOfDay(t) ==
    (DigitVal(t[1]) * 10 + DigitVal(t[2])) * 60 + DigitVal(t[4]) * 10 + DigitVal(t[5])

\* the scheduled time the claims name the reference
Reference == IF l.PTA # EmptyStr THEN l.PTA ELSE l.WTA

\* C3: for a well-formed HH:MM actual time a and a well-formed HH:MM
\* reference time s, Delay returns exactly minutes(a) - minutes(s), signed
C3_DelayIsSignedMinuteDifference ==
    (lpc # "start" /\ WellFormedHHMM(l.Arrival.AT) /\ WellFormedHHMM(Reference)) =>
        d = Returned([min |-> MinuteOfDay(l.Arrival.AT) - MinuteOfDay(Reference),
                      sec |-> 0, nsec |-> 0])

C3_Witness ==
    /\ lpc = "delayed"
    /\ l.Arrival.AT = T0958 /\ l.PTA = EmptyStr /\ l.WTA = T1000
    /\ d = Returned([min |-> 0 - 2, sec |-> 0, nsec |-> 0])

\* a returned delay strictly greater than zero
IsLate(r) == ~r.fatal /\ (r.v.min > 0 \/ r.v.sec > 0 \/ r.v.nsec > 0)

\* the decimal p (a sign, whole minutes, six digits) is the delay v to
\* within half a millionth of a minute: in nanoseconds,
\* | p - v | = | 60000 * (millionths of p above v.min, less v.sec * 16666)
\*               - (v.sec * 40000 + v.nsec) | <= 30000
DecimalIsDelay(p, v) ==
    /\ ~p.neg
    /\ p.frac \in 0..999999
    /\ Abs(60000 * ((p.whole - v.min) * 1000000 + p.frac - v.sec * 16666)
             - (v.sec * 40000 + v.nsec)) <= 30000

\* C4: the text String returns holds a DELAY annotation if and only if
\* Delay returns a value strictly greater than zero; there is one annotation
\* and its six-digit decimal is the value Delay returns, to the nearest
\* millionth of a minute; String returns a text whenever Delay returns
C4_AnnotationIffPositiveDelay ==
    (lpc = "rendered") =>
        /\ txt.fatal = d.fatal
        /\ HasDelayLine(txt.text) <=> IsLate(d)
        /\ HasDelayLine(txt.text) =>
              /\ Len(DelayLines(txt.text)) = 1
              /\ DecimalIsDelay(DelayLines(txt.text)[1][2], d.v)

C4_Witness ==
    /\ lpc = "rendered" /\ ~txt.fatal
    /\ l.PTA = T0905 /\ l.Arrival.AT = T0905
    /\ d = Returned(ZeroDelay)
    /\ ~HasDelayLine(txt.text)

\* C7, as claimed: with PTA and WTA both empty and a non-empty actual time,
\* whatever that string is, Delay is undefined (no parse failure arises)
\* and no annotation is rendered
C7_NoReferenceNeverFails ==
    (lpc = "rendered" /\ l.PTA = EmptyStr /\ l.WTA = EmptyStr /\ l.Arrival.AT # EmptyStr) =>
        /\ d = Returned(ZeroDelay)
        /\ ~txt.fatal /\ ~HasDelayLine(txt.text)

\* C8, as claimed: a non-empty time string is parsed alike as an actual time
\* and as a scheduled time: accepted on both sides or on neither, with the
\* same time of day
C8_ActualAndScheduledParseAlike ==
    (lpc # "start" /\ l.Arrival.AT # EmptyStr) =>
        Parse(ActualForm(l.Arrival.AT), l.Arrival.AT)
            = Parse(SchedForm(l.Arrival.AT), l.Arrival.AT)

----------------------------------------------------------------------------
(* Properties of the feed loop and of the rendering of a Message, under Spec *)

\* processing this message raises a decode, time-parse or delay error
MessageFails(mm) ==
    \/ mm.Body.gz # "ok"
    \/ mm.Body.xml # "ok"
    \/ MessageString(mm.Body.doc).fatal

\* C5, as claimed: an error raised while processing one message is local to
\* it: the feed loop goes on to the later messages, the process is not ended
C5_MessageErrorIsLocal ==
    (nrecv > 0 /\ ~msg.Err /\ MessageFails(msg)) => pc # "exited"

\* C6, as claimed: rendering a decoded Message never fails, also when a time
\* string matches no layout, and leaves the document as decoded
C6_RenderingNeverFails ==
    /\ ~out.fatal
    /\ pc = "ack" => m = msg.Body.doc

\* the pieces of a text with the tag given, in order
Tagged(t, tag) == SelectSeq(t, LAMBDA p : p[1] = tag)

\* C9, as claimed: Timestamp.String renders every non-empty one of RID, SSD
\* and UID, and after them every Location once, in document order
C9_TimestampRendersAllIds ==
    (pc = "ack" /\ m.UR.UO # "") =>
        /\ m.UR.TS.RID # "" => Tagged(out.text, "RID") = << <<"RID", m.UR.TS.RID>> >>
        /\ m.UR.TS.SSD # "" => Tagged(out.text, "SSD") = << <<"SSD", m.UR.TS.SSD>> >>
        /\ m.UR.TS.UID # "" => Tagged(out.text, "UID") = << <<"UID", m.UR.TS.UID>> >>
        /\ Tagged(out.text, "TPL")
             = [i \in 1..Len(m.UR.TS.Location) |-> <<"TPL", m.UR.TS.Location[i].TPL>>]

\* C10: no message is taken before the subscription succeeded with a
\* non-empty queue name; the messages are acknowledged one by one in arrival
\* order, each at most once and only after it was rendered; a message is not
\* taken before the one before it was acknowledged
C10_OneMessageAtATime ==
    /\ nrecv > 0 => queue_name # ""
    /\ pc \in {"wait", "decompress", "unmarshal", "render", "ack"} => subscribed
    /\ acked = [i \in 1..Len(acked) |-> i]
    /\ \A i \in 1..Len(acked) : i \in rendered
    /\ rendered \subseteq 1..nrecv
    /\ pc \in {"loop", "wait"} => Len(acked) = nrecv
    /\ pc \in {"decompress", "unmarshal", "render", "ack"} =>
           /\ Len(acked) = nrecv - 1
           /\ (nrecv \in rendered) <=> (pc = "ack")

C10_Witness ==
    /\ pc = "render" /\ nrecv = 2
    /\ acked = <<1>> /\ rendered = {1}
    /\ queue_name # "" /\ subscribed

====
